---- MODULE Spec2Model ----
(***************************************************************************)
(* A model of the nhldata client library: the request wrapper (endpoint    *)
(* router and request executor), the paginated player-statistics fetch     *)
(* and the locale normalizer.  Three revisions of the client live in the   *)
(* repository and are told apart by the variable impl:                     *)
(*   "nhldata" : src/nhldata/nhl/nhl.py over src/nhlstats/nhl/wrapper.py   *)
(*   "nhlapi"  : src/src/nhlapi/nhl_api.py over src/src/nhlapi/connector.py*)
(*   "master"  : src/nhlapi_master.py (module-level functions)             *)
(***************************************************************************)
EXTENDS Integers, Sequences, FiniteSets, TLC

VARIABLES
    impl,           \* the revision of the client that is running
    ver,            \* Wrapper._ver
    lang,           \* Wrapper._lang
    ssl_verify,     \* Wrapper._ssl_verify
    self_type,      \* Connector._type, the family tag of a connector object
    pc,             \* "idle", "loop" (inside a paginated fetch), "done", "raised"
    op,             \* the operation of the current call
    type_,          \* the family tag of the current call
    endpoint,       \* the endpoint path of the current call
    season,         \* the season argument of the current call
    total_players,  \* the total_players argument of the current call
    x,              \* the loop variable: x of range(), start of the while loop
    it,             \* how many items the for loop has taken from range()
    players,        \* the flat result list built by stats_players
    results,        \* the list of pages built by skater_stats / goalies_stats
    base_url,       \* what _url_check returned to the last get
    wire,           \* the HTTP requests handed to the transport in this call
    got,            \* the responses received in this call, in order
    ret,            \* the value returned to the caller
    err,            \* the exception raised to the caller
    data,           \* the normalizer: the record given to _extract_default
    arg,            \* the normalizer: the record given to the last call
    rec,            \* the normalizer: the record the last call returned
    n_apply,        \* the normalizer: number of calls of _extract_default so far
    max_year,       \* moneypuck: Connector.max_year / MAX_YEAR, the current year
    args,           \* the keyword arguments of the current call
    rows,           \* moneypuck: the rows season_stats has fetched so far
    opened,         \* moneypuck: the archive members opened in this call
    loops           \* the two pagination loops run side by side on one input

cfgvars  == <<impl, ver, lang, ssl_verify, self_type>>
callvars == <<pc, op, type_, endpoint, season, total_players, x, it, players, results,
              base_url, wire, got, ret, err>>
normvars == <<data, arg, rec, n_apply>>
mpvars   == <<max_year, args, rows, opened>>
loopvars == <<loops>>
vars     == <<cfgvars, callvars, normvars, mpvars, loopvars>>

-----------------------------------------------------------------------------
(* Bounds of the model. *)

\* the largest total_players a caller passes
MaxTotal == 250
\* how far below zero total_players goes
NegTotals == 1
\* the length of a short (truncated) page of the provider
ShortPage == 2

(* Program constants. *)

\* the page width: the step of range(0, total_players, 100), start += 100
PageSize == 100

STATS_URL == "https://api.nhle.com/stats/rest"
WEB_URL == "https://api-web.nhle.com"

-----------------------------------------------------------------------------
(* Python values. *)

\* Python's None, as a value and as str() prints it
NoneVal == [k |-> "None", v |-> "None"]
Str(s) == [k |-> "str", v |-> s]
\* str() of a value inside an f-string
Fmt(val) == val.v

StartsWith(s, p) == Len(s) >= Len(p) /\ SubSeq(s, 1, Len(p)) = p

NoErr == [exc |-> "", status |-> 0]
Raise(e, st) == [exc |-> e, status |-> st]

\* a decoded JSON body: an envelope with a data list, a JSON value without
\* the data key, or None (what a function without a return gives)
Envelope(d) == [kind |-> "envelope", data |-> d]
NoData  == [kind |-> "nodata", data |-> <<>>]
NotJson == [kind |-> "notjson", data |-> <<>>]
NoneRet == [kind |-> "None", data |-> <<>>]
ListRet(l) == [kind |-> "list", data |-> l]

\* the groups taken last to first
Flatten_rev(pages) ==
    LET n == Len(pages)
        Rev[j \in 0..n] == IF j = 0 THEN <<>> ELSE pages[j] \o Rev[j - 1]
    IN  Rev[n]

RECURSIVE Flatten(_)
\* itertools.chain.from_iterable(pages), as a list
Flatten(pages) ==
    IF pages = <<>> THEN <<>> ELSE Head(pages) \o Flatten(Tail(pages))

-----------------------------------------------------------------------------
(* The provider: what one HTTP exchange can come to. *)

PyInt(n) == [k |-> "int", v |-> n]

\* the records of the page that starts at offset xs and holds n records
PageOf(xs, n) == [i \in 1..n |-> xs + i]

PageLens == {0, ShortPage, PageSize}
Statuses == {200, 304, 404}
Bodies(xs) == {Envelope(PageOf(xs, n)) : n \in PageLens} \cup {NoData, NotJson}

TransportFail == [transport |-> TRUE, status |-> 0, body |-> NotJson]
Outcomes(xs) ==
    {TransportFail} \cup
    {[transport |-> FALSE, status |-> st, body |-> b] : st \in Statuses, b \in Bodies(xs)}

-----------------------------------------------------------------------------
(* The request wrapper. *)

\* requests refuses a URL without a scheme (MissingSchema) before any I/O
HasSchema(url) == StartsWith(url, "https://") \/ StartsWith(url, "http://")

\* the bare hosts, the locale and the version left out
url_check_bare(t) ==
    IF t = "stats" THEN Str("https://api.nhle.com/stats/rest")
    ELSE IF t = "web" THEN Str("https://api-web.nhle.com")
    ELSE Str("")

\* Wrapper._url_check of src/nhlstats/nhl/wrapper.py: url_mapping.get(type, "")
url_check_wrapper(t) ==
    IF t = "stats" THEN Str("https://api.nhle.com/stats/rest/" \o lang)
    ELSE IF t = "web" THEN Str("https://api-web.nhle.com/" \o ver)
    ELSE Str("")

\* Wrapper._url_check of src/src/nhlapi/connector.py: if / elif, no else
url_check_connector(t) ==
    IF t = "stats" THEN Str("https://api.nhle.com/stats/rest/" \o lang)
    ELSE IF t = "web" THEN Str("https://api-web.nhle.com/" \o ver)
    ELSE NoneVal

url_check(i, t) ==
    IF i = "nhldata" THEN url_check_wrapper(t) ELSE url_check_connector(t)

\* Response.raise_for_status(): raises HTTPError for 4xx and 5xx only
raise_for_status(st) == 400 <= st /\ st < 600

\* what a get comes to: the base URL resolved, the URL built, the requests
\* handed to the transport, the exception raised (or ""), the value returned
GetResult(b, u, s, e, st, v) ==
    [base |-> b, url |-> u, sent |-> s, exc |-> e, status |-> st, value |-> v]

\* Wrapper.get of src/nhlstats/nhl/wrapper.py
get_wrapper(t, ep, params, out) ==
    LET base == url_check("nhldata", t)
        full == Fmt(base) \o "/" \o ep
        req  == [url |-> full, params |-> params, verify |-> ssl_verify]
    IN  IF ~HasSchema(full)
          THEN GetResult(base, full, <<>>, "MissingSchema", 0, NoneRet)
        ELSE IF out.transport
          THEN GetResult(base, full, <<req>>, "ConnectionError", 0, NoneRet)
        ELSE IF raise_for_status(out.status)
          THEN GetResult(base, full, <<req>>, "HTTPError", out.status, NoneRet)
        ELSE IF out.body.kind = "notjson"
          THEN GetResult(base, full, <<req>>, "JSONDecodeError", 0, NoneRet)
        ELSE GetResult(base, full, <<req>>, "", 0, out.body)

\* Wrapper.get of src/src/nhlapi/connector.py
get_connector(t, ep, params, out) ==
    LET base == url_check("nhlapi", t)
        full == Fmt(base) \o "/" \o ep
        req  == [url |-> full, params |-> params, verify |-> TRUE]
    IN  IF ~HasSchema(full)
          THEN GetResult(base, full, <<>>, "NHLApiException", 0, NoneRet)
        ELSE IF out.transport
          THEN GetResult(base, full, <<req>>, "NHLApiException", 0, NoneRet)
        ELSE IF out.body.kind = "notjson"
          THEN GetResult(base, full, <<req>>, "JSONDecodeError", 0, NoneRet)
        ELSE IF 299 >= out.status /\ out.status >= 200
          THEN GetResult(base, full, <<req>>, "", 0, out.body)
        ELSE GetResult(base, full, <<req>>, "", 0, NoneRet)

get(i, t, ep, params, out) ==
    IF i = "nhldata" THEN get_wrapper(t, ep, params, out)
    ELSE get_connector(t, ep, params, out)

\* the family tag _get_wrapper_data hands to Wrapper.get for an operation of
\* family t: Connector passes self._type, NHLApi passes the tag of the call
wrapper_type(t) == IF impl = "nhldata" THEN self_type ELSE t

\* the responses a get received: none when the request never left
Received(r, out) == IF r.sent = <<>> \/ out.transport THEN <<>> ELSE <<out>>

-----------------------------------------------------------------------------
(* The paginated fetch. *)

\* a floor in place of the ceiling: the last, partial window is never requested
RangeLen_floor(stop, step) == IF stop <= 0 THEN 0 ELSE stop \div step

\* one window too many
RangeLen_extra(stop, step) == IF stop <= 0 THEN 0 ELSE (stop \div step) + 1

\* len(range(0, stop, step)) for step > 0
RangeLen(stop, step) == IF stop <= 0 THEN 0 ELSE (stop + step - 1) \div step
\* every pass of the loop at the first item again
RangeItem_stuck(step, i) == 0

\* range(0, stop, step)[i], counting from 0
RangeItem(step, i) == 0 + i * step

\* ep_params of StatsConnector.stats_players (src/nhldata/nhl/nhl.py)
PageParams_nhldata(xs, s) ==
    << <<"limit", Str("100")>>, <<"start", PyInt(xs)>>, <<"cayenneExp", NoneVal>>,
       <<"seasonId", PyInt(s)>>, <<"isAggregate", NoneVal>>, <<"isGame", NoneVal>>,
       <<"include", NoneVal>>, <<"exclude", NoneVal>>, <<"sort", NoneVal>>,
       <<"dir", NoneVal>> >>

\* the parameters of NHLApi.stats_players (src/src/nhlapi/nhl_api.py)
PageParams_nhlapi(xs, s) ==
    << <<"limit", Str("100")>>, <<"start", PyInt(xs)>>, <<"cayenneExp", NoneVal>>,
       <<"seasonId", PyInt(s)>> >>

\* payload of skater_stats / goalies_stats (src/nhlapi_master.py)
PageParams_master(xs, s) ==
    << <<"limit", Str("100")>>, <<"start", PyInt(xs)>>, <<"cayenneExp", Str("")>>,
       <<"seasonId", PyInt(s)>> >>

PageParams(i, xs, s) ==
    IF i = "nhldata" THEN PageParams_nhldata(xs, s)
    ELSE IF i = "nhlapi" THEN PageParams_nhlapi(xs, s)
    ELSE PageParams_master(xs, s)

\* the value of a query parameter of a request
Param(params, key) ==
    LET i == CHOOSE j \in 1..Len(params) : params[j][1] = key IN params[i][2]
HasParam(params, key) == \E j \in 1..Len(params) : params[j][1] = key

Impls == {"nhldata", "nhlapi", "master"}
Langs == {"en", "fr"}
Vers == {"v1", "v2"}
Tags == {"stats", "web", "shop"}
Endpoints == {"team", "season"}
Positions == {"skater", "goalie"}
Seasons == {20232024}
\* the totals callers pass: the values next to the window boundaries, the
\* middle of each window and the two ends of the range
Totals ==
    {t \in (0 - NegTotals)..MaxTotal :
        \/ t % PageSize \in {0, 1, 50, PageSize - 1}
        \/ t \in {0 - NegTotals, MaxTotal}}

Idle == pc = "idle"

\* a direct call of Wrapper.get(type, endpoint)
CallGet(t, ep) ==
    /\ Idle
    /\ impl \in {"nhldata", "nhlapi"}
    /\ \E out \in Outcomes(0) :
        LET r == get(impl, t, ep, <<>>, out) IN
        /\ pc' = IF r.exc = "" THEN "done" ELSE "raised"
        /\ base_url' = r.base
        /\ wire' = r.sent
        /\ got' = Received(r, out)
        /\ ret' = r.value
        /\ err' = Raise(r.exc, r.status)
    /\ op' = "get"
    /\ type_' = t
    /\ endpoint' = ep
    /\ x' = 0
    /\ it' = 0
    /\ players' = <<>>
    /\ results' = <<>>
    /\ season' = 0
    /\ total_players' = 0
    /\ UNCHANGED <<cfgvars, normvars, loopvars, mpvars>>

\* entry of stats_players(season, pos, total_players, factCayenneExp=f) and of
\* skater_stats / goalies_stats(total_players, season): the loop is set up
CallStatsPlayers(s, pos, total, f) ==
    /\ Idle
    /\ impl = "nhldata" => self_type = "stats"
    /\ args' = [factCayenneExp |-> f]
    /\ pc' = "loop"
    /\ op' = "stats_players"
    /\ type_' = wrapper_type("stats")
    /\ endpoint' = pos \o "/summary"
    /\ season' = s
    /\ total_players' = total
    /\ x' = 0
    /\ it' = 0
    /\ players' = <<>>
    /\ results' = <<>>
    /\ base_url' = NoneVal
    /\ wire' = <<>>
    /\ got' = <<>>
    /\ ret' = NoneRet
    /\ err' = NoErr
    /\ UNCHANGED <<cfgvars, normvars, loopvars, max_year, rows, opened>>

\* the page put in front of the list instead of behind it
extend_front(lst, page) == page \o lst

\* players.extend(page)
extend(lst, page) == lst \o page

\* one pass of the for loop of stats_players (both wrapper revisions)
PageRange ==
    /\ pc = "loop"
    /\ impl \in {"nhldata", "nhlapi"}
    /\ it < RangeLen(total_players, PageSize)
    /\ LET xs == RangeItem(PageSize, it) IN
       \E out \in Outcomes(xs) :
        LET r == get(impl, type_, endpoint, PageParams(impl, xs, season), out) IN
        /\ x' = xs
        /\ it' = it + 1
        /\ base_url' = r.base
        /\ wire' = wire \o r.sent
        /\ got' = got \o Received(r, out)
        /\ IF r.exc # ""
             THEN /\ pc' = "raised" /\ err' = Raise(r.exc, r.status)
                  /\ UNCHANGED players
           ELSE IF r.value.kind = "None"
             THEN /\ pc' = "raised" /\ err' = Raise("TypeError", 0)
                  /\ UNCHANGED players
           ELSE IF r.value.kind # "envelope"
             THEN /\ pc' = "raised" /\ err' = Raise("KeyError", 0)
                  /\ UNCHANGED players
           ELSE /\ players' = extend(players, r.value.data)
                /\ UNCHANGED <<pc, err>>
    /\ UNCHANGED <<op, type_, endpoint, season, total_players, results, ret,
                   cfgvars, normvars, loopvars, mpvars>>

\* one pass of the while loop of skater_stats / goalies_stats
PageWhile ==
    /\ pc = "loop"
    /\ impl = "master"
    /\ x < total_players
    /\ \E out \in Outcomes(x) :
        LET base == STATS_URL \o "/en/" \o endpoint
            req  == [url |-> base, params |-> PageParams(impl, x, season),
                     verify |-> TRUE]
        IN
        /\ wire' = Append(wire, req)
        /\ got' = IF out.transport THEN got ELSE Append(got, out)
        /\ IF out.transport
             THEN /\ pc' = "raised" /\ err' = Raise("ConnectionError", 0)
                  /\ UNCHANGED <<results, x>>
           ELSE IF out.body.kind = "notjson"
             THEN /\ pc' = "raised" /\ err' = Raise("JSONDecodeError", 0)
                  /\ UNCHANGED <<results, x>>
           ELSE IF out.body.kind # "envelope"
             THEN /\ pc' = "raised" /\ err' = Raise("KeyError", 0)
                  /\ UNCHANGED <<results, x>>
           ELSE /\ results' = Append(results, out.body.data)
                /\ x' = x + PageSize
                /\ UNCHANGED <<pc, err>>
    /\ UNCHANGED <<op, type_, endpoint, season, total_players, it, players,
                   base_url, ret, cfgvars, normvars, loopvars, mpvars>>

\* the loop is exhausted: return players / return list(chain(results))
Return ==
    /\ pc = "loop"
    /\ IF impl = "master"
         THEN ~(x < total_players)
         ELSE ~(it < RangeLen(total_players, PageSize))
    /\ pc' = "done"
    /\ ret' = IF impl = "master" THEN ListRet(Flatten(results)) ELSE ListRet(players)
    /\ UNCHANGED <<op, type_, endpoint, season, total_players, x, it, players,
                   results, base_url, wire, got, err, cfgvars, normvars, loopvars, mpvars>>

\* the most pages a fetch of MaxTotal records asks for
MaxPages == (MaxTotal \div PageSize) + 1

\* the page the provider serves at offset xs when its pages hold lens records
ServedPage(lens, xs) ==
    LET k == (xs \div PageSize) + 1 IN
    IF k \in DOMAIN lens THEN PageOf(xs, lens[k]) ELSE <<>>

\* the offsets of the for loop of stats_players: list(range(0, total, 100))
range_starts(total) ==
    [i \in 1..RangeLen(total, PageSize) |-> RangeItem(PageSize, i - 1)]

RECURSIVE while_starts_le(_, _)
\* the loop with <= for its test: one more pass when total is a multiple of 100
while_starts_le(start, total) ==
    IF start <= total THEN <<start>> \o while_starts_le(start + PageSize, total)
    ELSE <<>>

RECURSIVE while_starts(_, _)
\* the offsets of the while loop of skater_stats / goalies_stats:
\* while start < total_players: ...; start += 100
while_starts(start, total) ==
    IF start < total THEN <<start>> \o while_starts(start + PageSize, total)
    ELSE <<>>

\* what the for loop returns: players.extend(page) at every offset
range_list(total, lens) ==
    LET xs == range_starts(total)
        Acc[j \in 0..Len(xs)] ==
            IF j = 0 THEN <<>> ELSE extend(Acc[j - 1], ServedPage(lens, xs[j]))
    IN  Acc[Len(xs)]

\* what the while loop returns: results.append(page) at every offset, then
\* list(itertools.chain.from_iterable(results))
while_list(total, lens) ==
    LET xs == while_starts(0, total) IN
    Flatten([j \in 1..Len(xs) |-> ServedPage(lens, xs[j])])

\* both loops are run on one total against one provider
RunLoops(total, lens) ==
    /\ Idle
    /\ loops' = [total |-> total, pages |-> lens,
                 range_starts |-> range_starts(total),
                 while_starts |-> while_starts(0, total),
                 range_list |-> range_list(total, lens),
                 while_list |-> while_list(total, lens)]
    /\ UNCHANGED <<cfgvars, callvars, normvars, mpvars>>

\* ep_params of StatsConnector.stats_team (src/nhldata/nhl/nhl.py)
TeamParams(s, total_teams) ==
    << <<"limit", PyInt(total_teams)>>, <<"cayenneExp", NoneVal>>,
       <<"seasonId", PyInt(s)>>, <<"isAggregate", NoneVal>>, <<"isGame", NoneVal>>,
       <<"include", NoneVal>>, <<"exclude", NoneVal>>, <<"sort", NoneVal>>,
       <<"dir", NoneVal>>, <<"start", NoneVal>> >>

\* the filter expressions a caller passes as factCayenneExp
Filters == {NoneVal, Str("gamesPlayed>=20"), Str("")}

\* stats_team(season, factCayenneExp=f): one request of every team, then
\* the data key of the payload
CallStatsTeam(s, f) ==
    /\ Idle
    /\ impl = "nhldata"
    /\ self_type = "stats"
    /\ args' = [factCayenneExp |-> f]
    /\ \E out \in Outcomes(0) :
        LET r == get(impl, wrapper_type("stats"), "team/summary", TeamParams(s, 0 - 1), out)
            exc == IF r.exc # "" THEN r.exc
                   ELSE IF r.value.kind = "None" THEN "TypeError"
                   ELSE IF r.value.kind # "envelope" THEN "KeyError"
                   ELSE ""
        IN
        /\ pc' = IF exc = "" THEN "done" ELSE "raised"
        /\ base_url' = r.base
        /\ wire' = r.sent
        /\ got' = Received(r, out)
        /\ ret' = IF exc = "" THEN ListRet(r.value.data) ELSE NoneRet
        /\ err' = Raise(exc, IF r.exc # "" THEN r.status ELSE 0)
    /\ op' = "stats_team"
    /\ type_' = wrapper_type("stats")
    /\ endpoint' = "team/summary"
    /\ season' = s
    /\ total_players' = 0
    /\ x' = 0
    /\ it' = 0
    /\ players' = <<>>
    /\ results' = <<>>
    /\ UNCHANGED <<cfgvars, normvars, loopvars, max_year, rows, opened>>

\* the call is over, but its frame stays behind and the client has turned the
\* verification of certificates off for the calls to come
Finish_dirty ==
    /\ pc \in {"done", "raised"}
    /\ pc' = "idle"
    /\ ssl_verify' = FALSE
    /\ UNCHANGED <<impl, ver, lang, self_type, op, type_, endpoint, season,
                   total_players, x, it, players, results, base_url, wire, got,
                   ret, err, normvars, mpvars, loopvars>>

\* the call is over: the caller has the value or the exception, the frame of
\* the call is gone and the client can take the next call
Finish ==
    /\ pc \in {"done", "raised"}
    /\ pc' = "idle"
    /\ op' = ""
    /\ type_' = ""
    /\ endpoint' = ""
    /\ season' = 0
    /\ total_players' = 0
    /\ x' = 0
    /\ it' = 0
    /\ players' = <<>>
    /\ results' = <<>>
    /\ base_url' = NoneVal
    /\ wire' = <<>>
    /\ got' = <<>>
    /\ ret' = NoneRet
    /\ err' = NoErr
    /\ args' = [gametype |-> NoneVal, season |-> NoneVal, position |-> NoneVal,
                file_type |-> NoneVal, single_year |-> TRUE]
    /\ rows' = <<>>
    /\ opened' = <<>>
    /\ UNCHANGED <<cfgvars, normvars, loopvars, max_year>>

-----------------------------------------------------------------------------
(* The locale normalizer.  A JSON value is [k, v]: a scalar (Str, PyInt,   *)
(* None), a list (v the sequence of its items) or a dict (v the sequence    *)
(* of its <<key, value>> items in insertion order).                         *)

List(items) == [k |-> "list", v |-> items]
Dict(items) == [k |-> "dict", v |-> items]

\* isinstance(v, dict)
IsDict(val) == val.k = "dict"
\* key in d
HasKey(d, key) == \E j \in 1..Len(d.v) : d.v[j][1] = key
\* d[key]
GetKey(d, key) == d.v[CHOOSE j \in 1..Len(d.v) : d.v[j][1] = key][2]

\* any mapping is unwrapped to its first item, 'default' or not
extract_default_first(d) ==
    Dict([j \in 1..Len(d.v) |->
            LET key == d.v[j][1]
                val == d.v[j][2]
            IN  <<key, IF IsDict(val) /\ Len(val.v) > 0 THEN val.v[1][2] ELSE val>>])

\* v.get('default') on every mapping: None where there is no 'default'
extract_default_get(d) ==
    Dict([j \in 1..Len(d.v) |->
            LET key == d.v[j][1]
                val == d.v[j][2]
            IN  <<key, IF IsDict(val)
                         THEN (IF HasKey(val, "default") THEN GetKey(val, "default")
                               ELSE NoneVal)
                         ELSE val>>])

RECURSIVE unwrap_deep(_)
\* a value with every locale wrapper in it, at any depth, unwrapped
unwrap_deep(val) ==
    IF IsDict(val) /\ HasKey(val, "default") THEN unwrap_deep(GetKey(val, "default"))
    ELSE IF val.k = "dict"
      THEN Dict([j \in 1..Len(val.v) |-> <<val.v[j][1], unwrap_deep(val.v[j][2])>>])
    ELSE IF val.k = "list"
      THEN [k |-> "list", v |-> [j \in 1..Len(val.v) |-> unwrap_deep(val.v[j])]]
    ELSE val

\* the unwrapping carried into nested structures
extract_default_deep(d) ==
    Dict([j \in 1..Len(d.v) |-> <<d.v[j][1], unwrap_deep(d.v[j][2])>>])

\* WebConnector._extract_default / NHLApi._extract_default:
\* {k: v['default'] if isinstance(v, dict) and 'default' in v else v
\*  for k, v in data.items()}
extract_default(d) ==
    Dict([j \in 1..Len(d.v) |->
            LET key == d.v[j][1]
                val == d.v[j][2]
            IN  <<key, IF IsDict(val) /\ HasKey(val, "default")
                         THEN GetKey(val, "default") ELSE val>>])

\* the number of calls of _extract_default on one record
MaxApply == 2
\* the largest number of fields of a record
MaxFields == 2

Smith     == Dict(<< <<"default", Str("Smith")>>, <<"fr", Str("Smeth")>> >>)
Toronto   == Dict(<< <<"default", Str("Toronto")>> >>)
FieldNames == {"name", "age", "city"}
FieldValues ==
    { Str("Smith"), PyInt(30), NoneVal,
      Smith, Toronto,
      Dict(<<>>),
      Dict(<< <<"fr", Str("Smeth")>> >>),
      Dict(<< <<"inner", Smith>> >>),
      Dict(<< <<"default", Toronto>>, <<"fr", Smith>> >>),
      Dict(<< <<"default", List(<<Smith>>)>> >>),
      List(<<Smith, Str("Smith")>>) }

\* the records the normalizer is given: up to MaxFields distinct field names
RecordsOf(n) ==
    { Dict([j \in 1..n |-> <<ks[j], vs[j]>>]) :
        ks \in {q \in [1..n -> FieldNames] : \A a, b \in 1..n : a # b => q[a] # q[b]},
        vs \in [1..n -> FieldValues] }
Records == UNION {RecordsOf(n) : n \in 0..MaxFields}

\* the unwrapping done in place: the defaults are written into the mapping
\* passed in, which is also the decoded response on the first call
ExtractDefault_inplace ==
    /\ n_apply < MaxApply
    /\ arg' = extract_default(rec)
    /\ rec' = extract_default(rec)
    /\ data' = IF n_apply = 0 THEN extract_default(rec) ELSE data
    /\ n_apply' = n_apply + 1
    /\ UNCHANGED <<cfgvars, callvars, mpvars, loopvars>>

\* one call rec = self._extract_default(rec)
ExtractDefault ==
    /\ n_apply < MaxApply
    /\ arg' = rec
    /\ rec' = extract_default(rec)
    /\ n_apply' = n_apply + 1
    /\ UNCHANGED <<data, cfgvars, callvars, mpvars, loopvars>>

-----------------------------------------------------------------------------
(* The web facade: roster / club_prospects and the operations that return  *)
(* one key of the payload.                                                  *)

\* the largest number of position groups of a roster payload
MaxGroups == 2
\* the largest number of players of one position group
MaxGroupLen == 2

\* a decoded JSON body that is a JSON value
JsonBody(val) == [kind |-> "json", data |-> val]

\* a locale wrapper around a text
Wrap(s) == Dict(<< <<"default", Str(s)>>, <<"fr", Str(s \o " (fr)")>> >>)

\* the position groups, in the order the provider sends them
GroupLabels == <<"forwards", "defensemen", "goalies">>
PlayerKinds == {"nostate", "nolast", "plain"}
\* the player records of a roster payload: one without birthStateProvince;
\* one without lastName and with a wrapped field outside the four; one whose
\* firstName is plain text
Player(kind, id) ==
    IF kind = "nostate"
      THEN Dict(<< <<"id", PyInt(id)>>, <<"firstName", Wrap("Mikko")>>,
                   <<"lastName", Wrap("Rantanen")>>, <<"birthCity", Wrap("Nousiainen")>> >>)
    ELSE IF kind = "nolast"
      THEN Dict(<< <<"id", PyInt(id)>>, <<"firstName", Wrap("Ross")>>,
                   <<"positionName", Wrap("Centre")>>, <<"birthCity", Wrap("Robbinsville")>>,
                   <<"birthStateProvince", Wrap("New Jersey")>> >>)
    ELSE Dict(<< <<"id", PyInt(id)>>, <<"firstName", Str("Cale")>>,
                 <<"lastName", Wrap("Makar")>> >>)

\* the players of one group, by kind
KindSeqs == UNION {[1..l -> PlayerKinds] : l \in 0..MaxGroupLen}
\* the position-keyed payloads: up to MaxGroups groups under distinct labels
\* in the provider's order, up to MaxGroupLen players each, every player
\* under an id of its own
RosterPayloadsOf(n) ==
    { Dict([g \in 1..n |->
              <<GroupLabels[labels[g]],
                List([p \in 1..Len(kinds[g]) |-> Player(kinds[g][p], 10 * g + p)])>>]) :
        labels \in {q \in [1..n -> 1..Len(GroupLabels)] :
                      \A a, b \in 1..n : a < b => q[a] < q[b]},
        kinds \in [1..n -> KindSeqs] }
RosterPayloads == UNION {RosterPayloadsOf(n) : n \in 0..MaxGroups}

\* what the provider answers to a roster request: a position-keyed payload
\* under 200, an empty object or a body that is no JSON under any status
RosterOutcomes ==
    {TransportFail} \cup
    {[transport |-> FALSE, status |-> 200, body |-> JsonBody(d)] : d \in RosterPayloads} \cup
    {[transport |-> FALSE, status |-> st, body |-> b] :
        st \in Statuses, b \in {JsonBody(Dict(<<>>)), NotJson}}

\* [data[pos] for pos in data]: the groups of a payload in iteration order
Groups(d) == [g \in 1..Len(d.v) |-> d.v[g][2].v]

\* roster / club_prospects of src/nhldata/nhl/nhl.py and
\* src/src/nhlapi/nhl_api.py:
\* [self._extract_default(player) for pos in data for player in data[pos]]
roster_web(d) ==
    LET flat == Flatten(Groups(d)) IN
    [exc |-> "", value |-> ListRet([j \in 1..Len(flat) |-> extract_default(flat[j])])]

\* changes of roster (src/nhlapi_master.py) and getRoster (src/rosters_nhlapi.py)
changes == <<"firstName", "lastName", "birthCity", "birthStateProvince">>

\* d[key] = val on a key d has: the position of the key is kept
SetKey(d, key, val) ==
    Dict([j \in 1..Len(d.v) |-> IF d.v[j][1] = key THEN <<key, val>> ELSE d.v[j]])

\* the exception of val['default'], "" when there is none
SubscriptErr(val) ==
    IF IsDict(val) THEN (IF HasKey(val, "default") THEN "" ELSE "KeyError")
    ELSE "TypeError"

\* the loop without its test: a change the player lacks is looked up all the same
unwrap_changes_all(player, c) ==
    IF \E j \in c..Len(changes) : ~HasKey(player, changes[j])
      THEN [exc |-> "KeyError", value |-> player]
    ELSE [exc |-> "", value |-> extract_default(player)]

RECURSIVE unwrap_changes(_, _)
\* the passes of the loop over product(players, changes) for one player,
\* from change number c on:
\* if change in player: player[change] = player[change]['default']
unwrap_changes(player, c) ==
    IF c > Len(changes) THEN [exc |-> "", value |-> player]
    ELSE IF ~HasKey(player, changes[c]) THEN unwrap_changes(player, c + 1)
    ELSE LET val == GetKey(player, changes[c]) IN
         IF SubscriptErr(val) # "" THEN [exc |-> SubscriptErr(val), value |-> player]
         ELSE unwrap_changes(SetKey(player, changes[c], GetKey(val, "default")), c + 1)

\* roster of src/nhlapi_master.py from the decoded payload on
roster_master(d) ==
    LET flat == Flatten(Groups(d))
        res  == [j \in 1..Len(flat) |-> unwrap_changes(flat[j], 1)]
        bad  == {j \in 1..Len(flat) : res[j].exc # ""}
    IN  IF bad = {} THEN [exc |-> "", value |-> ListRet([j \in 1..Len(flat) |-> res[j].value])]
        ELSE [exc |-> res[CHOOSE j \in bad : \A q \in bad : j <= q].exc, value |-> NoneRet]

Teams == {"TOR"}
RosterOps == {"roster", "club_prospects"}

\* roster(team) / club_prospects(team): the request, the flattening and the
\* normalization of every player
CallRoster(o, team) ==
    /\ Idle
    /\ impl = "nhldata" => self_type = "web"
    /\ o = "club_prospects" => impl # "master"
    /\ \E out \in RosterOutcomes :
        LET ep == IF o = "roster" THEN "roster/" \o team \o "/current"
                  ELSE "prospects/" \o team
            r == IF impl = "master"
                   THEN LET full == WEB_URL \o "/v1/" \o ep
                            req  == [url |-> full, params |-> <<>>, verify |-> TRUE]
                        IN  IF out.transport
                              THEN GetResult(Str(WEB_URL), full, <<req>>, "ConnectionError", 0, NoneRet)
                            ELSE IF out.body.kind = "notjson"
                              THEN GetResult(Str(WEB_URL), full, <<req>>, "JSONDecodeError", 0, NoneRet)
                            ELSE GetResult(Str(WEB_URL), full, <<req>>, "", 0, out.body)
                   ELSE get(impl, wrapper_type("web"), ep, <<>>, out)
            res == IF r.exc # "" THEN [exc |-> r.exc, value |-> NoneRet]
                   ELSE IF r.value.kind = "None" THEN [exc |-> "TypeError", value |-> NoneRet]
                   ELSE IF impl = "master" THEN roster_master(r.value.data)
                   ELSE roster_web(r.value.data)
        IN
        /\ pc' = IF res.exc = "" THEN "done" ELSE "raised"
        /\ base_url' = r.base
        /\ wire' = r.sent
        /\ got' = Received(r, out)
        /\ ret' = res.value
        /\ err' = Raise(res.exc, IF r.exc # "" THEN r.status ELSE 0)
        /\ endpoint' = ep
    /\ op' = o
    /\ type_' = "web"
    /\ x' = 0
    /\ it' = 0
    /\ players' = <<>>
    /\ results' = <<>>
    /\ season' = 0
    /\ total_players' = 0
    /\ UNCHANGED <<cfgvars, normvars, loopvars, mpvars>>

\* the operations that return one key of the payload
EnvelopeOps == {"teams", "player_draft_detail", "game_log_player"}
\* the key each of them subscripts the payload with
EnvelopeKey(o) ==
    IF o = "teams" THEN "data"
    ELSE IF o = "player_draft_detail" THEN "draftDetails"
    ELSE "gameLog"
EnvelopeType(o) == IF o = "teams" THEN "stats" ELSE "web"
EnvelopeEndpoint(o) ==
    IF o = "teams" THEN "team"
    ELSE IF o = "player_draft_detail" THEN "player/8478402/landing"
    ELSE "player/8478402/game-log/now"

\* the payloads of those endpoints: an object with one of the keys, an empty
\* object, an error object
EnvelopePayloads ==
    {Dict(<< <<key, List(<<PyInt(1)>>)>> >>) : key \in {"data", "draftDetails", "gameLog"}}
    \cup {Dict(<<>>), Dict(<< <<"message", Str("Not Found")>> >>)}
EnvelopeOutcomes ==
    {TransportFail} \cup
    {[transport |-> FALSE, status |-> st, body |-> b] :
        st \in Statuses, b \in {JsonBody(d) : d \in EnvelopePayloads} \cup {NotJson}}

\* value[key] on what get returned: None is not subscriptable (TypeError), a
\* dict without the key raises KeyError
subscript(value, key) ==
    IF value.kind = "None" THEN [exc |-> "TypeError", value |-> NoneRet]
    ELSE IF ~HasKey(value.data, key) THEN [exc |-> "KeyError", value |-> NoneRet]
    ELSE [exc |-> "", value |-> JsonBody(GetKey(value.data, key))]

\* teams(), player_draft_detail(player_id), game_log_player(player_id):
\* return <the decoded payload>[key]
CallEnvelope(o) ==
    /\ Idle
    /\ impl = "nhldata" => self_type = EnvelopeType(o)
    /\ \E out \in EnvelopeOutcomes :
        LET t  == EnvelopeType(o)
            ep == EnvelopeEndpoint(o)
            r == IF impl = "master"
                   THEN LET root == IF t = "stats" THEN STATS_URL \o "/en" ELSE WEB_URL \o "/v1"
                            full == root \o "/" \o ep
                            req  == [url |-> full, params |-> <<>>, verify |-> TRUE]
                        IN  IF out.transport
                              THEN GetResult(Str(root), full, <<req>>, "ConnectionError", 0, NoneRet)
                            ELSE IF out.body.kind = "notjson"
                              THEN GetResult(Str(root), full, <<req>>, "JSONDecodeError", 0, NoneRet)
                            ELSE GetResult(Str(root), full, <<req>>, "", 0, out.body)
                   ELSE get(impl, wrapper_type(t), ep, <<>>, out)
            res == IF r.exc # "" THEN [exc |-> r.exc, value |-> NoneRet]
                   ELSE subscript(r.value, EnvelopeKey(o))
        IN
        /\ pc' = IF res.exc = "" THEN "done" ELSE "raised"
        /\ base_url' = r.base
        /\ wire' = r.sent
        /\ got' = Received(r, out)
        /\ ret' = res.value
        /\ err' = Raise(res.exc, IF r.exc # "" THEN r.status ELSE 0)
        /\ type_' = t
        /\ endpoint' = ep
    /\ op' = o
    /\ x' = 0
    /\ it' = 0
    /\ players' = <<>>
    /\ results' = <<>>
    /\ season' = 0
    /\ total_players' = 0
    /\ UNCHANGED <<cfgvars, normvars, loopvars, mpvars>>

-----------------------------------------------------------------------------
(* The moneypuck connector: the validator, the tabular fetcher and the     *)
(* operations over them (src/nhldata/moneypuck/moneypuck.py as "nhldata",  *)
(* src/src/moneypuck/moneypuck.py as "nhlapi").                             *)

\* the longest list of seasons a caller passes
MaxSeasons == 2

BASE_URL == "https://moneypuck.com/moneypuck/playerData/"
SHOTS_URL == "https://peter-tanner.com/moneypuck/downloads/"

\* bool(val): None, '', 0 and [] are falsy
Truthy(val) ==
    IF val.k = "None" THEN FALSE
    ELSE IF val.k = "str" THEN val.v # ""
    ELSE IF val.k = "int" THEN val.v # 0
    ELSE Len(val.v) > 0

Digit(d) == SubSeq("0123456789", d + 1, d + 1)
RECURSIVE IntStr(_)
\* str(n) of an int n >= 0
IntStr(n) == IF n < 10 THEN Digit(n) ELSE IntStr(n \div 10) \o Digit(n % 10)
\* str() of a value inside an f-string, ints included
PyStr(val) == IF val.k = "int" THEN IntStr(val.v) ELSE val.v

valid_gametypes == {"regular", "playoffs"}
valid_positions == {"skaters", "goalies"}
valid_file_types == {"skaters", "goalies", "lines", "teams"}

\* season in range(lo, hi)
in_range(s, lo, hi) == s.k = "int" /\ lo <= s.v /\ s.v < hi

\* only the first season of the list is looked at
difference_first(seasons, lo, hi) ==
    IF Len(seasons.v) = 0 THEN {}
    ELSE {s \in {seasons.v[1]} : ~in_range(s, lo, hi)}

\* set(season).difference(range(lo, hi))
difference(seasons, lo, hi) ==
    {s \in {seasons.v[j] : j \in 1..Len(seasons.v)} : ~in_range(s, lo, hi)}

\* the exception class of the validator
ValidationError(i) == IF i = "nhldata" THEN "NHLStatsException" ELSE "ValueError"

\* _validate(gametype, season, position, file_type, single_year): the name of
\* the argument it raises for, "" when it returns
validate(a) ==
    LET lo == IF a.single_year THEN 2006 ELSE 2007 IN
    IF Truthy(a.gametype) /\ a.gametype.v \notin valid_gametypes THEN "gametype"
    ELSE IF Truthy(a.season) /\
            (\/ a.single_year /\ ~in_range(a.season, lo, max_year)
             \/ ~a.single_year /\ difference(a.season, lo, max_year) # {})
      THEN "season"
    ELSE IF Truthy(a.position) /\ a.position.v \notin valid_positions THEN "position"
    ELSE IF Truthy(a.file_type) /\ a.file_type.v \notin valid_file_types THEN "file_type"
    ELSE ""

\* the arguments of a call as _validate sees them: what the operation does
\* not pass is None, single_year is True
Args(gt, sn, pos, ft, single) ==
    [gametype |-> gt, season |-> sn, position |-> pos, file_type |-> ft,
     single_year |-> single]
NoArgs == Args(NoneVal, NoneVal, NoneVal, NoneVal, TRUE)

\* the calendar years the program runs in
Years == {2025, 2026}
Gametypes == {Str("regular"), Str("playoffs"), Str("preseason"), Str("")}
MPPositions == {Str("skaters"), Str("goalies"), Str("forwards"), Str("")}
FileTypes == {Str("skaters"), Str("lines"), Str("shots"), Str("")}
\* the seasons callers pass: the documented examples, the edges of both
\* windows and the years around the current one
SeasonYears == {0, 1899, 2006, 2007, 2020, max_year - 1, max_year, max_year + 1}
SeasonLists ==
    UNION {{List([j \in 1..n |-> PyInt(q[j])]) : q \in [1..n -> SeasonYears \ {0, 2006}]} :
             n \in 0..MaxSeasons}

\* a CSV text and its rows as csv.DictReader gives them
Csv(table) == [kind |-> "csv", data |-> table]
Row(name) == Dict(<< <<"name", Str(name)>> >>)
\* a ZIP archive, its members by name, and a body that is no archive
Zip(members) == [kind |-> "zip", data |-> members]
NotZip == [kind |-> "notzip", data |-> {}]

\* what the host answers to the request of a table: a table of two rows or
\* of one under 200, a page without rows under 404
TabOutcomes ==
    {TransportFail,
     [transport |-> FALSE, status |-> 200, body |-> Csv(<<Row("a"), Row("b")>>)],
     [transport |-> FALSE, status |-> 200, body |-> Csv(<<Row("c")>>)],
     [transport |-> FALSE, status |-> 404, body |-> Csv(<<>>)]}

\* the archives the shots host serves for a season: the member the program
\* looks for may be there or not, under that name or another
ZipOutcomes(sn) ==
    {TransportFail} \cup
    {[transport |-> FALSE, status |-> st, body |-> b] :
        st \in {200, 404},
        b \in {NotZip} \cup
              {Zip(m) : m \in SUBSET {"shots_" \o PyStr(sn) \o ".csv", "shots.csv", "readme.txt"}}}

\* only the first row of the table is kept
fetch_and_process_data_first(ep, file_name, out) ==
    LET url == BASE_URL \o ep \o file_name \o ".csv"
        req == [url |-> url, params |-> <<>>, verify |-> TRUE]
    IN  IF out.transport
          THEN [sent |-> <<req>>, exc |-> "ConnectionError", value |-> <<>>]
        ELSE [sent |-> <<req>>, exc |-> "",
              value |-> IF out.body.data = <<>> THEN <<>> ELSE <<Head(out.body.data)>>]

\* _fetch_and_process_data(endpoint, file_name) against one outcome of the
\* transport: requests.get(url), no status check, the text read as CSV
fetch_and_process_data(ep, file_name, out) ==
    LET url == BASE_URL \o ep \o file_name \o ".csv"
        req == [url |-> url, params |-> <<>>, verify |-> TRUE]
    IN  IF out.transport
          THEN [sent |-> <<req>>, exc |-> "ConnectionError", value |-> <<>>]
        ELSE [sent |-> <<req>>, exc |-> "", value |-> out.body.data]

PlayerId == PyInt(8478402)
TabularOps == {"player_by_game", "player_by_season", "team_stats"}
\* the arguments _validate is given by each of them
TabularArgs(o, gt, pos) ==
    IF o = "team_stats" THEN Args(gt, NoneVal, NoneVal, NoneVal, TRUE)
    ELSE Args(gt, NoneVal, pos, NoneVal, TRUE)
\* the endpoint each of them builds
TabularEndpoint(o, gt, pos) ==
    IF o = "player_by_game" THEN "careers/gameByGame/" \o PyStr(gt) \o "/" \o PyStr(pos) \o "/"
    ELSE IF o = "player_by_season" THEN "careers/perSeason/" \o PyStr(gt) \o "/" \o PyStr(pos) \o "/"
    ELSE "careers/gameByGame/" \o PyStr(gt) \o "/teams/"

\* player_by_game(player_id, position, gametype),
\* player_by_season(player_id, position, gametype), team_stats(team, gametype):
\* the validation, then one fetch
CallTabular(o, gt, pos) ==
    /\ Idle
    /\ o = "team_stats" => pos = NoneVal
    /\ o # "team_stats" => pos # NoneVal
    /\ LET a == TabularArgs(o, gt, pos)
           ep == TabularEndpoint(o, gt, pos)
           file_name == IF o = "team_stats" THEN "TOR" ELSE PyStr(PlayerId)
       IN
       /\ args' = a
       /\ endpoint' = ep
       /\ IF validate(a) # ""
            THEN /\ pc' = "raised"
                 /\ err' = Raise(ValidationError(impl), 0)
                 /\ wire' = <<>>
                 /\ got' = <<>>
                 /\ ret' = NoneRet
          ELSE \E out \in TabOutcomes :
                 LET r == fetch_and_process_data(ep, file_name, out) IN
                 /\ pc' = IF r.exc = "" THEN "done" ELSE "raised"
                 /\ err' = Raise(r.exc, 0)
                 /\ wire' = r.sent
                 /\ got' = IF out.transport THEN <<>> ELSE <<out>>
                 /\ ret' = IF r.exc = "" THEN ListRet(r.value) ELSE NoneRet
    /\ op' = o
    /\ type_' = "moneypuck"
    /\ UNCHANGED <<season, total_players, x, it, players, results, base_url,
                   cfgvars, normvars, loopvars, max_year, rows, opened>>

\* entry of season_stats(file_type, seasons, gametype): the validation of the
\* whole call, then the comprehension over seasons is set up
CallSeasonStats(ft, seasons, gt) ==
    /\ Idle
    /\ LET a == Args(gt, seasons, NoneVal, ft, FALSE) IN
       /\ args' = a
       /\ IF validate(a) # ""
            THEN /\ pc' = "raised" /\ err' = Raise(ValidationError(impl), 0)
          ELSE IF seasons.k # "list"
            THEN /\ pc' = "raised" /\ err' = Raise("TypeError", 0)
          ELSE /\ pc' = "loop" /\ err' = NoErr
    /\ op' = "season_stats"
    /\ type_' = "moneypuck"
    /\ endpoint' = ""
    /\ it' = 0
    /\ rows' = <<>>
    /\ wire' = <<>>
    /\ got' = <<>>
    /\ ret' = NoneRet
    /\ UNCHANGED <<season, total_players, x, players, results, base_url,
                   cfgvars, normvars, loopvars, max_year, opened>>

\* one pass of the comprehension of season_stats: the fetch of one season
FetchSeason ==
    /\ pc = "loop"
    /\ op = "season_stats"
    /\ it < Len(args.season.v)
    /\ \E out \in TabOutcomes :
        LET ep == "seasonSummary/" \o PyStr(args.season.v[it + 1]) \o "/"
                    \o PyStr(args.gametype) \o "/"
            r == fetch_and_process_data(ep, PyStr(args.file_type), out)
        IN
        /\ endpoint' = ep
        /\ it' = it + 1
        /\ wire' = wire \o r.sent
        /\ got' = IF out.transport THEN got ELSE Append(got, out)
        /\ IF r.exc # ""
             THEN /\ pc' = "raised" /\ err' = Raise(r.exc, 0) /\ UNCHANGED rows
           ELSE /\ rows' = rows \o r.value /\ UNCHANGED <<pc, err>>
    /\ UNCHANGED <<op, type_, season, total_players, x, players, results,
                   base_url, ret, cfgvars, normvars, loopvars, max_year, args, opened>>

\* the comprehension of season_stats is exhausted: the list is returned
ReturnSeasonStats ==
    /\ pc = "loop"
    /\ op = "season_stats"
    /\ ~(it < Len(args.season.v))
    /\ pc' = "done"
    /\ ret' = ListRet(rows)
    /\ UNCHANGED <<op, type_, endpoint, season, total_players, x, it, players,
                   results, base_url, wire, got, err, cfgvars, normvars, loopvars, mpvars>>

\* the member shots_season opens: f'shots_{season}.csv'
member_name(sn) == "shots_" \o PyStr(sn) \o ".csv"

\* shots_season(season): the validation, the download of the archive, the
\* member opened and read
CallShotsSeason(sn) ==
    /\ Idle
    /\ LET a == Args(NoneVal, sn, NoneVal, NoneVal, TRUE)
           url == SHOTS_URL \o "shots_" \o PyStr(sn) \o ".zip"
           req == [url |-> url, params |-> <<>>, verify |-> TRUE]
       IN
       /\ args' = a
       /\ IF validate(a) # ""
            THEN /\ pc' = "raised"
                 /\ err' = Raise(ValidationError(impl), 0)
                 /\ wire' = <<>>
                 /\ got' = <<>>
                 /\ ret' = NoneRet
                 /\ opened' = <<>>
          ELSE \E out \in ZipOutcomes(sn) :
                 /\ wire' = <<req>>
                 /\ got' = IF out.transport THEN <<>> ELSE <<out>>
                 /\ IF out.transport
                      THEN /\ pc' = "raised" /\ err' = Raise("ConnectionError", 0)
                           /\ ret' = NoneRet /\ opened' = <<>>
                    ELSE IF out.body.kind # "zip"
                      THEN /\ pc' = "raised" /\ err' = Raise("BadZipFile", 0)
                           /\ ret' = NoneRet /\ opened' = <<>>
                    ELSE IF member_name(sn) \notin out.body.data
                      THEN /\ pc' = "raised" /\ err' = Raise("KeyError", 0)
                           /\ ret' = NoneRet /\ opened' = <<member_name(sn)>>
                    ELSE /\ pc' = "done" /\ err' = NoErr
                         /\ ret' = ListRet(<<Row(member_name(sn))>>)
                         /\ opened' = <<member_name(sn)>>
    /\ op' = "shots_season"
    /\ type_' = "moneypuck"
    /\ endpoint' = ""
    /\ UNCHANGED <<season, total_players, x, it, players, results, base_url,
                   cfgvars, normvars, loopvars, max_year, rows>>

-----------------------------------------------------------------------------
(* The web operations that build their path from their arguments           *)
(* (src/nhldata/nhl/nhl.py, draft_rankings also in                          *)
(* src/src/nhlapi/nhl_api.py).                                              *)

\* the class NHLStatsException as a value: what an f-string prints for it
NHLStatsExceptionClass ==
    [k |-> "class", v |-> "<class 'nhldata.tools.exceptions.NHLStatsException'>"]

\* Connector._check_gametype: gametypes.get(gametype, NHLStatsException)
check_gametype(gametype) ==
    IF gametype = Str("regular") THEN PyInt(2)
    ELSE IF gametype = Str("playoffs") THEN PyInt(3)
    ELSE NHLStatsExceptionClass

\* the path of draft_rankings(year, category)
draft_rankings_path(year, category) ==
    "draft/rankings/" \o
        (IF year = Str("now") THEN "now" ELSE PyStr(year) \o "/" \o PyStr(category))

\* the path of game_log_player(player_id, season, game_type)
game_log_player_path(player_id, season_, game_type) ==
    LET season_str == IF season_ = NoneVal THEN "now" ELSE PyStr(season_)
        game_type_str == IF game_type = NoneVal THEN ""
                         ELSE "/" \o PyStr(check_gametype(game_type))
    IN  "player/" \o PyStr(player_id) \o "/game-log/" \o season_str \o game_type_str

\* the path of stat_leaders(player_type, season, game_type)
stat_leaders_path(player_type, season_, game_type) ==
    LET season_path == IF season_ = NoneVal THEN "current"
                       ELSE PyStr(season_) \o "/" \o PyStr(check_gametype(game_type))
    IN  PyStr(player_type) \o "-stats-leaders/" \o season_path

\* the path of stats_club(team, game_type)
stats_club_path(team, game_type) ==
    IF game_type = NoneVal THEN "club-stats/" \o PyStr(team) \o "/now"
    ELSE "club-stats/" \o PyStr(team) \o "/" \o PyStr(check_gametype(game_type))

\* the keyword arguments of a call of one of these operations
WebCall(year, category, season_, game_type) ==
    [year |-> year, category |-> category, season |-> season_, game_type |-> game_type]

WebOps == {"draft_rankings", "game_log_player", "stat_leaders", "stats_club"}
GameTypeOps == WebOps \ {"draft_rankings"}

\* the arguments callers pass: a year as text or as a number, a category or
\* none, a season or none, a game type that is absent, valid or not
DraftYears == {Str("now"), Str("2024"), PyInt(2024)}
DraftCategories == {NoneVal, Str("1")}
WebSeasons == {NoneVal, PyInt(20232024)}
WebGameTypes == {NoneVal, Str("regular"), Str("playoffs"), Str("preseason")}
WebCalls(o) ==
    IF o = "draft_rankings"
      THEN {WebCall(y, c, NoneVal, NoneVal) : y \in DraftYears, c \in DraftCategories}
    ELSE IF o = "stats_club"
      THEN {WebCall(NoneVal, NoneVal, NoneVal, gt) : gt \in WebGameTypes}
    ELSE IF o = "stat_leaders"
      THEN {WebCall(NoneVal, NoneVal, sn, gt) :
                sn \in WebSeasons, gt \in WebGameTypes \ {NoneVal}}
    ELSE {WebCall(NoneVal, NoneVal, sn, gt) : sn \in WebSeasons, gt \in WebGameTypes}

WebPath(o, a) ==
    IF o = "draft_rankings" THEN draft_rankings_path(a.year, a.category)
    ELSE IF o = "game_log_player"
      THEN game_log_player_path(PlayerId, a.season, a.game_type)
    ELSE IF o = "stat_leaders" THEN stat_leaders_path(Str("skater"), a.season, a.game_type)
    ELSE stats_club_path(Str("TOR"), a.game_type)

\* the query parameters of the call: stat_leaders sends its category and limit
WebParams(o) ==
    IF o = "stat_leaders"
      THEN << <<"categories", NoneVal>>, <<"limit", PyInt(0 - 1)>> >>
    ELSE <<>>

\* draft_rankings, game_log_player, stat_leaders, stats_club: the path is
\* formatted, one request goes out, the payload (its gameLog key for
\* game_log_player) is returned
CallWeb(o, a) ==
    /\ Idle
    /\ IF o = "draft_rankings" THEN impl \in {"nhldata", "nhlapi"} ELSE impl = "nhldata"
    /\ impl = "nhldata" => self_type = "web"
    /\ args' = a
    /\ \E out \in EnvelopeOutcomes :
        LET r == get(impl, wrapper_type("web"), WebPath(o, a), WebParams(o), out)
            res == IF r.exc # "" THEN [exc |-> r.exc, value |-> NoneRet]
                   ELSE IF o = "game_log_player" THEN subscript(r.value, "gameLog")
                   ELSE [exc |-> "", value |-> r.value]
        IN
        /\ pc' = IF res.exc = "" THEN "done" ELSE "raised"
        /\ base_url' = r.base
        /\ wire' = r.sent
        /\ got' = Received(r, out)
        /\ ret' = res.value
        /\ err' = Raise(res.exc, IF r.exc # "" THEN r.status ELSE 0)
    /\ op' = o
    /\ type_' = wrapper_type("web")
    /\ endpoint' = WebPath(o, a)
    /\ x' = 0
    /\ it' = 0
    /\ players' = <<>>
    /\ results' = <<>>
    /\ season' = 0
    /\ total_players' = 0
    /\ UNCHANGED <<cfgvars, normvars, loopvars, max_year, rows, opened>>

-----------------------------------------------------------------------------
(* The specifications. *)

\* no input has been given to the two loops
NoLoops == [total |-> 0, pages |-> <<>>, range_starts |-> <<>>, while_starts |-> <<>>,
            range_list |-> <<>>, while_list |-> <<>>]

\* the moneypuck connector before any call
InitMP ==
    /\ max_year = 2026
    /\ args = NoArgs
    /\ rows = <<>>
    /\ opened = <<>>

InitCfg ==
    /\ impl \in Impls
    /\ ver \in Vers
    /\ lang \in Langs
    /\ ssl_verify \in BOOLEAN
    \* src/nhlapi_master.py has no client object: 'v1', 'en' and the default
    \* verification are fixed in its code
    /\ impl = "master" => (lang = "en" /\ ssl_verify)
    \* only the connectors of src/nhldata/nhl/nhl.py keep a family tag:
    \* StatsConnector is constructed with 'stats', WebConnector with 'web'
    /\ self_type \in {"stats", "web", ""}
    /\ self_type = "" <=> impl # "nhldata"

InitCall ==
    /\ pc = "idle"
    /\ op = ""
    /\ type_ = ""
    /\ endpoint = ""
    /\ season = 0
    /\ total_players = 0
    /\ x = 0
    /\ it = 0
    /\ players = <<>>
    /\ results = <<>>
    /\ base_url = NoneVal
    /\ wire = <<>>
    /\ got = <<>>
    /\ ret = NoneRet
    /\ err = NoErr

Init ==
    /\ InitCfg
    /\ InitCall
    /\ data = Dict(<<>>)
    /\ arg = Dict(<<>>)
    /\ rec = Dict(<<>>)
    /\ n_apply = 0
    /\ InitMP
    /\ loops = NoLoops

Next ==
    \/ \E t \in Tags, ep \in Endpoints : CallGet(t, ep)
    \/ \E s \in Seasons, pos \in Positions, total \in Totals :
          CallStatsPlayers(s, pos, total, NoneVal)
    \/ PageRange
    \/ PageWhile
    \/ Return
    \/ Finish

Spec == Init /\ [][Next]_vars

\* the paginated fetch under the scheduling of a single-threaded program:
\* a loop that can take its next step takes it
FairSpec == Spec /\ WF_vars(PageRange) /\ WF_vars(PageWhile) /\ WF_vars(Return)

\* a StatsConnector with the default settings, called with and without a
\* filter expression
InitFilter ==
    /\ Init
    /\ impl = "nhldata"
    /\ ver = "v1"
    /\ lang = "en"
    /\ ssl_verify = TRUE
    /\ self_type = "stats"

NextFilter ==
    \/ \E s \in Seasons, pos \in Positions, total \in Totals, f \in Filters :
          CallStatsPlayers(s, pos, total, f)
    \/ \E s \in Seasons, f \in Filters : CallStatsTeam(s, f)
    \/ PageRange
    \/ Return
    \/ Finish

SpecFilter == InitFilter /\ [][NextFilter]_vars

\* the web facade of a client with the default settings
InitFacade ==
    /\ Init
    /\ ver = "v1"
    /\ lang = "en"
    /\ ssl_verify = TRUE

NextFacade ==
    \/ \E o \in RosterOps, team \in Teams : CallRoster(o, team)
    \/ \E o \in EnvelopeOps : CallEnvelope(o)
    \/ Idle /\ \E o \in WebOps : \E a \in WebCalls(o) : CallWeb(o, a)
    \/ Finish

SpecFacade == InitFacade /\ [][NextFacade]_vars

\* the moneypuck connector: the class of src/nhldata and the module of
\* src/src, constructed in one of the years
InitMoneypuck ==
    /\ impl \in {"nhldata", "nhlapi"}
    /\ ver = "v1"
    /\ lang = "en"
    /\ ssl_verify = TRUE
    /\ self_type = IF impl = "nhldata" THEN "stats" ELSE ""
    /\ InitCall
    /\ data = Dict(<<>>)
    /\ arg = Dict(<<>>)
    /\ rec = Dict(<<>>)
    /\ n_apply = 0
    /\ max_year \in Years
    /\ args = NoArgs
    /\ rows = <<>>
    /\ opened = <<>>
    /\ loops = NoLoops

NextMoneypuck ==
    \/ Idle /\ \E o \in TabularOps, gt \in Gametypes, pos \in MPPositions \cup {NoneVal} :
                  CallTabular(o, gt, pos)
    \/ Idle /\ \E ft \in FileTypes, seasons \in SeasonLists \cup {NoneVal}, gt \in Gametypes :
                  CallSeasonStats(ft, seasons, gt)
    \/ FetchSeason
    \/ ReturnSeasonStats
    \/ Idle /\ \E sn \in {PyInt(y) : y \in SeasonYears} \cup {NoneVal} : CallShotsSeason(sn)
    \/ Finish

SpecMoneypuck == InitMoneypuck /\ [][NextMoneypuck]_vars

\* the two paginated loops side by side
InitLoops ==
    /\ Init
    /\ impl = "nhldata"
    /\ ver = "v1"
    /\ lang = "en"
    /\ ssl_verify = TRUE
    /\ self_type = "stats"

NextLoops == \E total \in Totals, lens \in [1..MaxPages -> PageLens] : RunLoops(total, lens)

SpecLoops == InitLoops /\ [][NextLoops]_vars

InitNorm ==
    /\ impl = "nhldata"
    /\ ver = "v1"
    /\ lang = "en"
    /\ ssl_verify = TRUE
    /\ self_type = IF impl = "nhldata" THEN "stats" ELSE ""
    /\ InitCall
    /\ data \in Records
    /\ arg = data
    /\ rec = data
    /\ n_apply = 0
    /\ InitMP
    /\ loops = NoLoops

NextNorm == ExtractDefault

SpecNorm == InitNorm /\ [][NextNorm]_vars

-----------------------------------------------------------------------------
(* The paginated fetch: claims C1 to C4. *)

Fetching == op = "stats_players"

\* the least n with n * PageSize >= total: the number of windows of [0, total)
CeilPages(total) ==
    IF total <= 0 THEN 0
    ELSE CHOOSE n \in 1..total : n * PageSize >= total /\ (n - 1) * PageSize < total

\* a request's parameters other than start
OtherParams(params) == SelectSeq(params, LAMBDA q : q[1] # "start")

\* C1: for every total >= 0 the paginated fetch issues its page requests one
\* after another with start = 0, 100, 200, ... (each a multiple of 100
\* strictly below total), each with limit=100 and otherwise the same URL and
\* parameters; a fetch that ran to its end has issued exactly ceil(total/100)
\* of them (three for total=250, none for total=0).
C1_PageRequests ==
    (Fetching /\ total_players >= 0) =>
        /\ Len(wire) <= CeilPages(total_players)
        /\ \A i \in 1..Len(wire) :
              /\ Param(wire[i].params, "start") = PyInt((i - 1) * 100)
              /\ (i - 1) * 100 < total_players
              /\ Param(wire[i].params, "limit") = Str("100")
              /\ OtherParams(wire[i].params) = OtherParams(wire[1].params)
              /\ wire[i].url = wire[1].url
        /\ pc = "done" => Len(wire) = CeilPages(total_players)

C1_Witness ==
    /\ Fetching /\ pc = "done" /\ total_players = 250
    /\ Len(wire) = 3
    /\ Param(wire[3].params, "start") = PyInt(200)

\* the pages of the first n responses, one after the other
ConcatData(resps, n) ==
    LET RECURSIVE Cat(_)
        Cat(m) == IF m = 0 THEN <<>> ELSE Cat(m - 1) \o resps[m].body.data
    IN  Cat(n)

\* C2: when every page request succeeded, the list returned is the
\* concatenation of the data arrays of the responses in the order of their
\* start offsets, every record once and in its place; no pages, empty list.
C2_Concatenation ==
    (Fetching /\ pc = "done") =>
        /\ ret.kind = "list"
        /\ ret.data = ConcatData(got, Len(got))
        /\ Len(got) = Len(wire)
        /\ \A i \in 1..Len(got) :
              \A j \in 1..Len(got[i].body.data) :
                  got[i].body.data[j] = (i - 1) * PageSize + j
        /\ \A a \in 1..(Len(ret.data) - 1) : ret.data[a] < ret.data[a + 1]
        /\ Len(got) = 0 => ret.data = <<>>

C2_Witness ==
    /\ Fetching /\ pc = "done"
    /\ Len(got) = 3
    /\ Len(got[1].body.data) = ShortPage
    /\ Len(got[2].body.data) = PageSize
    /\ Len(got[3].body.data) = ShortPage
    /\ Len(ret.data) = PageSize + 2 * ShortPage

AllPagesWithinLimit == \A i \in 1..Len(got) : Len(got[i].body.data) <= 100

\* C3 as stated: the result of the paginated fetch never holds more records
\* than the caller's total, whatever the provider returns in pages of at most
\* 100 records.
C3_Original ==
    (Fetching /\ pc = "done" /\ total_players >= 0 /\ AllPagesWithinLimit) =>
        Len(ret.data) <= total_players

\* C3 amended: the result holds at most 100 records for each window of
\* [0, total), that is at most 100 * ceil(total/100) records: the last page
\* is requested in full, so the result can exceed a total that is not a
\* multiple of 100.
C3_UpperBound ==
    (Fetching /\ pc = "done" /\ total_players >= 0 /\ AllPagesWithinLimit) =>
        Len(ret.data) <= 100 * CeilPages(total_players)

C3_Witness ==
    /\ Fetching /\ pc = "done" /\ total_players = 250
    /\ AllPagesWithinLimit
    /\ Len(ret.data) = 300

\* C4: the paginated fetch stops by the caller's total alone: every fetch
\* that is under way comes to its end (a return or an exception), and the
\* number of requests of a fetch that returned is ceil(total/100) whatever
\* the pages held; after an empty page the next offset is still requested.
C4_TerminatesByTotal ==
    /\ (pc = "loop") ~> (pc \in {"done", "raised"})
    /\ [](Fetching /\ pc = "done" => Len(got) = CeilPages(total_players))
    /\ [](Fetching /\ pc = "loop" /\ Len(got) > 0 /\ got[Len(got)].body.data = <<>>
            /\ Len(got) < CeilPages(total_players)
          => ENABLED (PageRange \/ PageWhile))

C4_Witness ==
    /\ Fetching /\ pc = "done"
    /\ Len(got) = 3
    /\ got[1].body.data = <<>>
    /\ got[2].body.data = <<>>
    /\ Len(got[3].body.data) = PageSize

-----------------------------------------------------------------------------
(* The request wrapper: claims C5 to C7. *)

\* a call of Wrapper.get has come to its end
GetOver == op = "get" /\ pc \in {"done", "raised"}

\* C5: for every response whose status code is outside 200..299, get fails
\* with an HTTP status error that carries that status code; it returns
\* neither None nor any other value.
C5_StatusError ==
    (GetOver /\ got # <<>> /\ ~(got[1].status \in 200..299)) =>
        /\ pc = "raised"
        /\ err.exc = "HTTPError"
        /\ err.status = got[1].status

\* C6: a family tag other than 'stats' and 'web' is refused with an
\* UnknownFamily error: the base URL is never the empty string or None, and
\* no HTTP request is issued.
C6_UnknownFamily ==
    (GetOver /\ ~(type_ \in {"stats", "web"})) =>
        /\ pc = "raised"
        /\ err.exc = "UnknownFamily"
        /\ base_url # Str("")
        /\ base_url # NoneVal
        /\ wire = <<>>

\* C7: for 'stats' the base URL is the stats host followed by '/' and the
\* locale, for 'web' the web host followed by '/' and the version, with the
\* locale and version of the client; the URL of every request is the base
\* URL, then '/', then the endpoint path.
C7_BaseUrl ==
    /\ (impl \in {"nhldata", "nhlapi"} /\ pc # "idle" /\ base_url # NoneVal
          /\ type_ = "stats")
        => base_url = Str(STATS_URL \o "/" \o lang)
    /\ (impl \in {"nhldata", "nhlapi"} /\ pc # "idle" /\ base_url # NoneVal
          /\ type_ = "web")
        => base_url = Str(WEB_URL \o "/" \o ver)
    /\ \A i \in 1..Len(wire) :
          /\ type_ = "stats" => wire[i].url = STATS_URL \o "/" \o lang \o "/" \o endpoint
          /\ type_ = "web" => wire[i].url = WEB_URL \o "/" \o ver \o "/" \o endpoint

C7_Witness ==
    /\ GetOver /\ pc = "done"
    /\ type_ = "web" /\ ver = "v2" /\ endpoint = "season"
    /\ Len(wire) = 1
    /\ wire[1].url = "https://api-web.nhle.com/v2/season"

-----------------------------------------------------------------------------
(* The locale normalizer: claims C8 to C10. *)

\* the field names of a record, in order
Keys(d) == [j \in 1..Len(d.v) |-> d.v[j][1]]
KeySet(d) == {d.v[j][1] : j \in 1..Len(d.v)}
\* the value a record holds under a field name
Lookup(d, key) ==
    (CHOOSE q \in {d.v[j] : j \in 1..Len(d.v)} : q[1] = key)[2]
\* a locale wrapper: a mapping with the key default
IsWrapper(val) == val.k = "dict" /\ "default" \in KeySet(val)

\* C8: _extract_default returns a record with exactly the field names of its
\* input, in which every field whose value is a mapping with the key default
\* holds that default value, the alternate-language keys gone, and every
\* other field holds its value unchanged.
C8_UnwrapLocale ==
    n_apply >= 1 =>
        /\ Keys(rec) = Keys(arg)
        /\ \A key \in KeySet(arg) :
              LET vin == Lookup(arg, key) IN
              IF IsWrapper(vin)
                THEN Lookup(rec, key) = Lookup(vin, "default")
                ELSE Lookup(rec, key) = vin

C8_Witness ==
    /\ n_apply = 1
    /\ arg = Dict(<< <<"name", Dict(<< <<"default", Str("Smith")>>,
                                      <<"fr", Str("Smeth")>> >>)>>,
                     <<"age", PyInt(30)>> >>)
    /\ rec = Dict(<< <<"name", Str("Smith")>>, <<"age", PyInt(30)>> >>)

RECURSIVE Wrappers(_)
\* the number of locale wrappers in a value, itself included
Wrappers(val) ==
    LET RECURSIVE Sum(_)
        Sum(j) == IF j = 0 THEN 0
                  ELSE Sum(j - 1) + Wrappers(IF val.k = "dict" THEN val.v[j][2]
                                             ELSE val.v[j])
    IN  (IF IsWrapper(val) THEN 1 ELSE 0)
        + (IF val.k \in {"dict", "list"} THEN Sum(Len(val.v)) ELSE 0)

\* C9: the unwrapping is shallow: a locale wrapper inside a list, inside a
\* mapping without the key default, or as the default value of another
\* wrapper is left exactly as it was; only top-level values are replaced.
C9_Shallow ==
    n_apply >= 1 =>
        \A j \in 1..Len(arg.v) :
            LET vin  == arg.v[j][2]
                vout == rec.v[j][2]
            IN  /\ vin.k = "list" => (vout = vin /\ Wrappers(vout) = Wrappers(vin))
                /\ (vin.k = "dict" /\ ~IsWrapper(vin))
                      => (vout = vin /\ Wrappers(vout) = Wrappers(vin))
                /\ IsWrapper(vin)
                      => /\ vout = Lookup(vin, "default")
                         /\ Wrappers(vout) = Wrappers(Lookup(vin, "default"))
                         /\ IsWrapper(Lookup(vin, "default")) => IsWrapper(vout)

C9_Witness ==
    /\ n_apply = 1
    /\ arg = Dict(<< <<"name", List(<<Smith, Str("Smith")>>)>>,
                     <<"city", Dict(<< <<"default", Toronto>>, <<"fr", Smith>> >>)>> >>)
    /\ rec = Dict(<< <<"name", List(<<Smith, Str("Smith")>>)>>,
                     <<"city", Toronto>> >>)

\* no top-level value of the record is a locale wrapper
Unwrapped(d) == \A j \in 1..Len(d.v) : ~IsWrapper(d.v[j][2])

\* C10: _extract_default applied to an already-unwrapped record returns a
\* record equal to it, and applied a second time returns an equal record
\* again.
C10_Idempotent ==
    (Unwrapped(data) /\ n_apply >= 1) => (rec = data /\ arg = data)

C10_Witness ==
    /\ n_apply = 2
    /\ data = Dict(<< <<"name", Str("Smith")>>,
                      <<"city", Dict(<< <<"inner", Smith>> >>)>> >>)
    /\ Unwrapped(data)
    /\ rec = data

-----------------------------------------------------------------------------
(* The roster path: claims C11 to C13. *)

RosterDone == op \in RosterOps /\ pc = "done"
\* the roster call received a position-keyed payload under status 200
RosterPayloadIn ==
    /\ op \in RosterOps
    /\ Len(got) = 1
    /\ got[1].status = 200
    /\ got[1].body.kind = "json"
\* the player records of the payload received, group after group
InputPlayers ==
    LET d == got[1].body.data
        All[g \in 0..Len(d.v)] == IF g = 0 THEN <<>> ELSE All[g - 1] \o d.v[g][2].v
    IN  All[Len(d.v)]
IdOf(player) == GetKey(player, "id")

\* C11: a roster or prospects call that returns on a position-keyed payload
\* returns one list that has, for group g and place p in it, the record of
\* that place at index (sizes of the groups before g) + p, and nothing else:
\* every record of every group exactly once, the groups in the payload's
\* iteration order and the records of a group in their order.
C11_FlattenOrder ==
    RosterDone =>
        LET d == got[1].body.data
            Off[g \in 0..Len(d.v)] == IF g = 0 THEN 0 ELSE Off[g - 1] + Len(d.v[g][2].v)
        IN  /\ Len(ret.data) = Off[Len(d.v)]
            /\ \A g \in 1..Len(d.v) : \A p \in 1..Len(d.v[g][2].v) :
                  IdOf(ret.data[Off[g - 1] + p]) = IdOf(d.v[g][2].v[p])

\* a roster of two groups, two players in the first, has been flattened
C11_Witness ==
    /\ RosterDone
    /\ Len(got[1].body.data.v) = 2
    /\ Len(got[1].body.data.v[1][2].v) = 2
    /\ Len(got[1].body.data.v[2][2].v) >= 1
    /\ Len(ret.data) >= 3

IsChange(key) == \E c \in 1..Len(changes) : changes[c] = key

\* C12: the roster and prospects paths unwrap only firstName, lastName,
\* birthCity and birthStateProvince: in every record returned a field under
\* any other name has the value the payload had for it, a mapping with a
\* default key included.
C12_OnlyFourFields ==
    RosterDone =>
        \A j \in 1..Len(ret.data) : \A f \in 1..Len(InputPlayers[j].v) :
            LET key == InputPlayers[j].v[f][1] IN
            ~IsChange(key) =>
                /\ HasKey(ret.data[j], key)
                /\ GetKey(ret.data[j], key) = InputPlayers[j].v[f][2]

\* C13: on the roster path a record that lacks one of the four fields is
\* processed without error and the field is not added: a call that received
\* a payload raises only when a field that is present cannot be unwrapped,
\* and a call that returns gives every record the fields it had, in their
\* order, each of the four that is present and wrapped replaced by its
\* default, in that record and in every record after it.
C13_MissingFieldSkipped ==
    RosterPayloadIn =>
        /\ pc = "raised" =>
              \E j \in 1..Len(InputPlayers) : \E c \in 1..Len(changes) :
                  /\ HasKey(InputPlayers[j], changes[c])
                  /\ SubscriptErr(GetKey(InputPlayers[j], changes[c])) # ""
        /\ pc = "done" =>
              /\ Len(ret.data) = Len(InputPlayers)
              /\ \A j \in 1..Len(InputPlayers) :
                    /\ Len(ret.data[j].v) = Len(InputPlayers[j].v)
                    /\ \A f \in 1..Len(InputPlayers[j].v) :
                          LET key == InputPlayers[j].v[f][1]
                              val == InputPlayers[j].v[f][2]
                          IN  /\ ret.data[j].v[f][1] = key
                              /\ (IsChange(key) /\ IsDict(val) /\ HasKey(val, "default"))
                                    => ret.data[j].v[f][2] = GetKey(val, "default")

\* the four-field loop has returned a roster whose first record has neither
\* lastName nor birthStateProvince and whose second record has no
\* birthStateProvince; the birthCity of both came out unwrapped
C13_Witness ==
    /\ RosterDone
    /\ impl = "master"
    /\ Len(InputPlayers) >= 2
    /\ ~HasKey(InputPlayers[1], "lastName")
    /\ ~HasKey(ret.data[1], "lastName")
    /\ ~HasKey(ret.data[2], "birthStateProvince")
    /\ GetKey(ret.data[1], "birthCity").k = "str"
    /\ GetKey(ret.data[2], "birthCity").k = "str"

-----------------------------------------------------------------------------
(* The moneypuck validator and fetchers: claims C14 to C17. *)

MPOps == TabularOps \cup {"season_stats", "shots_season"}
\* the call has raised the validator's exception
ValidationRaised == pc = "raised" /\ err.exc = ValidationError(impl)
\* year is a season of the documented window from first to the current year
InWindow(year, first) == year.k = "int" /\ first <= year.v /\ year.v <= max_year

\* C14: the season validation accepts exactly the documented window: with
\* single_year=True (shots_season) a season is accepted if and only if it
\* is in 2006..current year inclusive; with single_year=False
\* (season_stats, the tags being valid) a list is accepted if and only if
\* every element is in 2007..current year inclusive; anything else raises
\* the validation error.
C14_SeasonWindow ==
    /\ (op = "shots_season" /\ pc # "idle") =>
          (~ValidationRaised <=> InWindow(args.season, 2006))
    /\ (/\ op = "season_stats"
        /\ pc # "idle"
        /\ args.season.k = "list"
        /\ args.gametype.v \in valid_gametypes
        /\ args.file_type.v \in valid_file_types) =>
          (~ValidationRaised <=>
              \A j \in 1..Len(args.season.v) : InWindow(args.season.v[j], 2007))

\* C15: a game-type tag passes only if it is 'regular' or 'playoffs', a
\* position tag only if it is 'skaters' or 'goalies', a file-type tag only
\* if it is 'skaters', 'goalies', 'lines' or 'teams'; any other value a
\* caller supplies raises the validation error.
C15_TagsExact ==
    (op \in TabularOps \cup {"season_stats"} /\ pc # "idle") =>
        /\ args.gametype.v \notin valid_gametypes => ValidationRaised
        /\ (op \in {"player_by_game", "player_by_season"}
              /\ args.position.v \notin valid_positions) => ValidationRaised
        /\ (op = "season_stats" /\ args.file_type.v \notin valid_file_types)
              => ValidationRaised
        /\ (op \in TabularOps /\ ValidationRaised) =>
              \/ args.gametype.v \notin valid_gametypes
              \/ args.position.v \notin valid_positions

\* every argument of the call is one _validate lets through
Passes(tag, valid) == ~Truthy(tag) \/ tag.v \in valid
SeasonPasses ==
    \/ ~Truthy(args.season)
    \/ args.single_year /\ args.season.k = "int"
          /\ 2006 <= args.season.v /\ args.season.v < max_year
    \/ ~args.single_year /\ args.season.k = "list"
          /\ \A j \in 1..Len(args.season.v) :
                /\ args.season.v[j].k = "int"
                /\ 2007 <= args.season.v[j].v
                /\ args.season.v[j].v < max_year

\* C16: in season_stats, player_by_game, player_by_season, team_stats and
\* shots_season the validation is over before the first request: a call that
\* raises the validation error has sent no request, received nothing and
\* returned nothing, and a request is on the wire only in a call all of
\* whose arguments the validator lets through, every season of a
\* multi-season call included.
C16_ValidateBeforeRequest ==
    op \in MPOps =>
        /\ ValidationRaised =>
              (wire = <<>> /\ got = <<>> /\ rows = <<>> /\ ret = NoneRet)
        /\ wire # <<>> =>
              /\ Passes(args.gametype, valid_gametypes)
              /\ Passes(args.position, valid_positions)
              /\ Passes(args.file_type, valid_file_types)
              /\ SeasonPasses

\* season_stats over a valid season followed by an invalid one has raised the
\* validation error with nothing sent
C16_Witness ==
    /\ op = "season_stats"
    /\ ValidationRaised
    /\ args.gametype = Str("regular")
    /\ args.file_type = Str("skaters")
    /\ args.season = List(<<PyInt(2020), PyInt(1899)>>)
    /\ wire = <<>>

\* C17: shots_season opens exactly the member shots_{season}.csv of the
\* archive it downloaded; when the archive has no member of that name the
\* call fails with a MissingArchiveEntry error and returns no records.
C17_MissingArchiveEntry ==
    (op = "shots_season" /\ Len(got) = 1 /\ got[1].body.kind = "zip") =>
        LET name == "shots_" \o PyStr(args.season) \o ".csv" IN
        /\ opened = <<name>>
        /\ name \notin got[1].body.data =>
              (pc = "raised" /\ err.exc = "MissingArchiveEntry" /\ ret = NoneRet)

-----------------------------------------------------------------------------
(* Errors of the facade and of the request executor: claims C18 to C20. *)

\* C18: when a payload decoded from a successful response lacks the key the
\* operation unwraps (data of teams, draftDetails of player_draft_detail,
\* gameLog of game_log_player), the operation fails with an explicit
\* MalformedPayload error: it neither returns None nor lets a generic lookup
\* error reach the caller.
C18_MalformedPayload ==
    (/\ op \in EnvelopeOps
     /\ Len(got) = 1
     /\ got[1].status = 200
     /\ got[1].body.kind = "json"
     /\ ~HasKey(got[1].body.data, EnvelopeKey(op))) =>
        (pc = "raised" /\ err.exc = "MalformedPayload" /\ ret = NoneRet)

\* the request of the call went out and no response came back
TransportFailed == Len(wire) = Len(got) + 1

\* C19: when the transport fails (connection refused, DNS failure, timeout)
\* get fails with the library's transport error wrapping the underlying
\* cause (NHLApiException raised from the requests exception) and returns
\* no value.
C19_TransportError ==
    (op = "get" /\ TransportFailed) =>
        (pc = "raised" /\ err.exc \in {"TransportError", "NHLApiException"}
            /\ ret = NoneRet)

\* the error the last page request raised in the request executor, NoErr
\* when it raised none
PageRequestError ==
    IF TransportFailed
      THEN Raise(IF impl = "nhlapi" THEN "NHLApiException" ELSE "ConnectionError", 0)
    ELSE IF got = <<>> THEN NoErr
    ELSE LET last == got[Len(got)] IN
         IF impl = "nhldata" /\ last.status >= 400 /\ last.status <= 599
           THEN Raise("HTTPError", last.status)
         ELSE IF last.body.kind = "notjson" THEN Raise("JSONDecodeError", 0)
         ELSE NoErr

-----------------------------------------------------------------------------
(* The client configuration: claims C21 and C22. *)

\* C21: the configuration of a client is read-only after construction: no
\* step of any call, successful or failing, changes the API version, the
\* language, the verification flag or the family tag, and when a call is
\* over nothing of it is left behind: the client is as it was constructed.
C21_ConfigReadOnly ==
    [][/\ impl' = impl
       /\ ver' = ver
       /\ lang' = lang
       /\ ssl_verify' = ssl_verify
       /\ self_type' = self_type
       /\ pc' = "idle" =>
             /\ <<op', type_', endpoint', season', total_players', x', it'>>
                   = <<"", "", "", 0, 0, 0, 0>>
             /\ <<players', results', wire', got'>> = <<(<<>>), (<<>>), (<<>>), (<<>>)>>
             /\ <<base_url', ret', err'>> = <<NoneVal, NoneRet, NoErr>>
             /\ <<args', rows', opened'>> = <<NoArgs, (<<>>), (<<>>)>>]_vars

\* a paginated fetch of two pages and more has returned on a client
\* constructed with version v2, language fr and the verification off
C21_Witness ==
    /\ pc = "done"
    /\ op = "stats_players"
    /\ ver = "v2"
    /\ lang = "fr"
    /\ ~ssl_verify
    /\ self_type = "stats"
    /\ Len(wire) >= 2

\* C22: the verification of certificates follows the flag of the
\* constructor: every request of a client constructed with ssl_verify=False
\* is sent with the verification off, every request of a client constructed
\* with the default is sent with the verification on.
C22_VerifyFollowsFlag ==
    \A j \in 1..Len(wire) : wire[j].verify = ssl_verify

-----------------------------------------------------------------------------
(* The statistics and web operations: claims C23 and C24. *)

\* C23: the filter expression of the caller is passed through as it is: when
\* stats_players or stats_team is called with a filter expression, every
\* request of the call carries that expression, unchanged, as cayenneExp.
C23_FilterPassThrough ==
    (op \in {"stats_players", "stats_team"} /\ args.factCayenneExp # NoneVal) =>
        \A j \in 1..Len(wire) :
            /\ HasParam(wire[j].params, "cayenneExp")
            /\ Param(wire[j].params, "cayenneExp") = args.factCayenneExp

\* the path draft_rankings is specified to build from its arguments
DraftPath(year, category) ==
    IF year = Str("now") THEN "draft/rankings/now"
    ELSE IF category = NoneVal THEN "draft/rankings/" \o PyStr(year)
    ELSE "draft/rankings/" \o PyStr(year) \o "/" \o PyStr(category)

\* C24: draft_rankings requests draft/rankings/now when year is 'now',
\* draft/rankings/{year}/{category} when a year and a category are given, and
\* draft/rankings/{year}, with no category segment, when a year is given
\* without a category.
C24_DraftRankingsPath ==
    op = "draft_rankings" =>
        /\ endpoint = DraftPath(args.year, args.category)
        /\ \A j \in 1..Len(wire) :
              wire[j].url = Fmt(base_url) \o "/" \o DraftPath(args.year, args.category)

-----------------------------------------------------------------------------
(* The multi-season fetch: claim C25. *)

RECURSIVE ConcatRows(_)
\* the rows of a sequence of responses, one table after the other
ConcatRows(responses) ==
    IF responses = <<>> THEN <<>>
    ELSE Head(responses).body.data \o ConcatRows(Tail(responses))

\* the address of the table of the j-th season of the call
SeasonUrl(j) ==
    BASE_URL \o "seasonSummary/" \o PyStr(args.season.v[j]) \o "/"
        \o PyStr(args.gametype) \o "/" \o PyStr(args.file_type) \o ".csv"

\* C25: season_stats issues exactly one CSV request per element of the
\* seasons list, in list order, and returns the rows of those files
\* concatenated in that order, one record per data row; an empty list gives
\* no request and an empty result.
C25_OneRequestPerSeason ==
    (op = "season_stats" /\ pc = "done") =>
        /\ Len(wire) = Len(args.season.v)
        /\ \A j \in 1..Len(wire) : wire[j].url = SeasonUrl(j)
        /\ Len(got) = Len(wire)
        /\ ret = ListRet(ConcatRows(got))
        /\ args.season.v = <<>> => (wire = <<>> /\ ret = ListRet(<<>>))

\* two different seasons were fetched and their tables differ
C25_Witness ==
    /\ op = "season_stats"
    /\ pc = "done"
    /\ Len(args.season.v) = 2
    /\ args.season.v[1] # args.season.v[2]
    /\ Len(got) = 2
    /\ got[1].body.data # <<>>
    /\ got[2].body.data # <<>>
    /\ got[1].body.data # got[2].body.data
    /\ Len(ret.data) = 3

-----------------------------------------------------------------------------
(* Argument validation of the web and moneypuck operations: claims C26 and *)
(* C27.                                                                     *)

\* C26: no tabular request is issued with an argument outside its valid set:
\* every request of shots_season, season_stats, team_stats, player_by_game
\* and player_by_season was built from a season inside the window and from a
\* gametype, position and file type inside their allowed sets; a falsy
\* argument (season 0, an empty gametype or position) reaches no request.
C26_NoInvalidRequest ==
    (op \in MPOps /\ wire # <<>>) =>
        /\ op = "shots_season" => InWindow(args.season, 2006)
        /\ op = "season_stats" =>
              /\ \A j \in 1..Len(args.season.v) : InWindow(args.season.v[j], 2007)
              /\ args.file_type.v \in valid_file_types
        /\ op # "shots_season" => args.gametype.v \in valid_gametypes
        /\ op \in {"player_by_game", "player_by_season"} =>
              args.position.v \in valid_positions

\* a call of game_log_player, stat_leaders or stats_club made with a game type
GameTypeCall == op \in GameTypeOps /\ "game_type" \in DOMAIN args
\* the last two characters of the path of the call
PathTail == SubSeq(endpoint, Len(endpoint) - 1, Len(endpoint))
\* the path of the call has a game-type segment
HasGameTypeSegment ==
    /\ args.game_type # NoneVal
    /\ op = "stat_leaders" => args.season # NoneVal

\* C27: game_log_player, stat_leaders and stats_club called with a game type
\* that is neither 'regular' nor 'playoffs' raise NHLStatsException and issue
\* no request; a request carries only the code 2 or 3 as its game-type
\* segment.
C27_InvalidGameTypeRaises ==
    GameTypeCall =>
        /\ args.game_type \notin {NoneVal, Str("regular"), Str("playoffs")} =>
              (pc = "raised" /\ err.exc = "NHLStatsException" /\ wire = <<>>)
        /\ (wire # <<>> /\ HasGameTypeSegment) => PathTail \in {"/2", "/3"}

-----------------------------------------------------------------------------
(* Equivalences and purity: claims C28 to C30. *)

\* C28: the four-field normalization of the roster is equivalent to the
\* locale normalizer on those fields: when one of the four fields is present
\* and holds a plain value that is no locale wrapper, roster raises no error
\* and returns that value unchanged.
C28_PlainValueKept ==
    RosterPayloadIn =>
        \A j \in 1..Len(InputPlayers) : \A c \in 1..Len(changes) :
            (/\ HasKey(InputPlayers[j], changes[c])
             /\ ~IsDict(GetKey(InputPlayers[j], changes[c]))) =>
                /\ pc = "done"
                /\ GetKey(ret.data[j], changes[c]) = GetKey(InputPlayers[j], changes[c])

\* C29: the two pagination implementations agree: for every integer total,
\* negative, zero, a multiple of 100 or not, the while loop of skater_stats /
\* goalies_stats and the range loop of stats_players issue the same sequence
\* of start offsets and, given the same page responses, return the same list.
C29_LoopsAgree ==
    /\ loops.range_starts = loops.while_starts
    /\ loops.range_list = loops.while_list

\* both loops ran over three pages, the last window a partial one, and
\* returned records
C29_Witness ==
    /\ loops.total = MaxTotal
    /\ Len(loops.while_starts) >= 3
    /\ loops.while_starts[3] = 2 * PageSize
    /\ Len(loops.while_list) > PageSize

\* C30: the normalizer is pure: a call of _extract_default builds a new
\* record and leaves the mapping it was given, nested values included, as it
\* was before the call, and the decoded response stays what it was.
C30_Pure ==
    [][n_apply' # n_apply =>
          /\ arg' = rec
          /\ data' = data
          /\ n_apply = 0 => arg' = data]_vars

\* a call that unwrapped a field has returned, the mapping it was given,
\* the decoded response, still holding the wrapper
C30_Witness ==
    /\ n_apply = 1
    /\ arg = data
    /\ rec # arg
    /\ \E j \in 1..Len(arg.v) :
          /\ IsWrapper(arg.v[j][2])
          /\ rec.v[j][2] = Lookup(arg.v[j][2], "default")
====
